---- MODULE Spec2Model ----
(***************************************************************************)
(* NTU Sports reconciliation tool (src/membership_checker.py).             *)
(*                                                                         *)
(* Names are sequences of one-character strings, so that normalize_name    *)
(* and difflib's SequenceMatcher are computed character by character.      *)
(* Money is counted in pence (1 pound = 100), so that the 0.01 tolerance   *)
(* of validate_external_bookings is one unit.  A missing CSV cell (pandas  *)
(* NaN) is the identifier "NaN", the name NaNName, and None is "None".     *)
(***************************************************************************)
EXTENDS Integers, Sequences, FiniteSets, TLC

VARIABLES
    members_df,              \* payer table, with its NormalizedName column
    payments_df,             \* payment table, with its NormalizedName column
    external_df,             \* booking table
    pc,                      \* position of main() / reconcile_memberships
    idx,                     \* row of payments_df the current loop is at
    selected_players,        \* member index -> row of the account table
    matched_payment_indices, \* set of payment rows consumed by a match
    fuzzy_suggestions,       \* list of {EnteredName, SuggestedName}
    resolved_payments,       \* list of resolved payment dicts
    all_selected_names,      \* snapshot of the selected NormalizedName column
    paid_not_selected,       \* list of payment dicts
    unmatched_payments,      \* list of resolved payment dicts
    ledger,                  \* history: one entry per "PaidAmount +=" executed
    external_all,            \* validate_external_bookings: annotated table
    external_issues,         \* validate_external_bookings: issue subset
    summary,                 \* generate_summary: the report
    run,                     \* which run of main() this is
    first_run                \* outputs of the first run, kept for comparison

vars == << members_df, payments_df, external_df, pc, idx, selected_players,
           matched_payment_indices, fuzzy_suggestions, resolved_payments,
           all_selected_names, paid_not_selected, unmatched_payments, ledger,
           external_all, external_issues, summary, run, first_run >>

----------------------------------------------------------------------------
(* Constants of the program *)

ANNUAL_FEE == 120
HOURLY_RATE == 5
\* FUZZY_CUTOFF = 0.86, in hundredths
FUZZY_CUTOFF == 86
\* pence per pound: the scale in which the 0.01 tolerance is one unit
Pence == 100
\* the annual fee in pence
Fee == ANNUAL_FEE * Pence

----------------------------------------------------------------------------
(* Bounds of the model *)

MaxMembers == 2
MaxPayments == 2
MaxBookings == 2

----------------------------------------------------------------------------
(* Characters and strings *)

\* The characters used, in code point order (space < upper case < lower case).
Alphabet == << " ", "A", "B", "C", "D", "a", "b", "c", "d" >>

Ord(c) == CHOOSE k \in 1..Len(Alphabet) : Alphabet[k] = c

\* str.lower() on one character
LowerChar(c) ==
    CASE c = "A" -> "a"
      [] c = "B" -> "b"
      [] c = "C" -> "c"
      [] c = "D" -> "d"
      [] OTHER -> c

Lower(s) == [k \in 1..Len(s) |-> LowerChar(s[k])]

RECURSIVE LStrip(_)
LStrip(s) == IF s # << >> /\ s[1] = " " THEN LStrip(Tail(s)) ELSE s

RECURSIVE RStrip(_)
RStrip(s) ==
    IF s # << >> /\ s[Len(s)] = " " THEN RStrip(SubSeq(s, 1, Len(s) - 1)) ELSE s

\* str.strip()
Strip(s) == RStrip(LStrip(s))

\* str.replace("  ", " "): one left-to-right pass over non-overlapping pairs
RECURSIVE ReplaceDoubleSpace(_)
ReplaceDoubleSpace(s) ==
    IF Len(s) < 2 THEN s
    ELSE IF s[1] = " " /\ s[2] = " "
         THEN << " " >> \o ReplaceDoubleSpace(SubSeq(s, 3, Len(s)))
         ELSE << s[1] >> \o ReplaceDoubleSpace(Tail(s))

NaNName == << "NaN" >>
NaNId == "NaN"
None == "None"

normalize_name(name) ==
    IF name = NaNName THEN << >>
    ELSE ReplaceDoubleSpace(Strip(Lower(name)))

\* Python's str < str: lexicographic by code point, a proper prefix is smaller
RECURSIVE StrLess(_, _)
StrLess(x, y) ==
    IF y = << >> THEN FALSE
    ELSE IF x = << >> THEN TRUE
    ELSE IF x[1] # y[1] THEN Ord(x[1]) < Ord(y[1])
    ELSE StrLess(Tail(x), Tail(y))

----------------------------------------------------------------------------
(* difflib.SequenceMatcher(a = candidate, b = word), no junk.  A ratio is  *)
(* the pair << numerator, denominator >> of the float the library returns. *)

SetMax(S) == CHOOSE x \in S : \A y \in S : y <= x
SetMin(S) == CHOOSE x \in S : \A y \in S : x <= y

\* the elements of a set of integers, in increasing order
RECURSIVE SortedSeq(_)
SortedSeq(S) ==
    IF S = {} THEN << >> ELSE << SetMin(S) >> \o SortedSeq(S \ {SetMin(S)})

\* length of the common block of a and b that starts at a[i], b[j] and stays
\* inside a[..ahi], b[..bhi]
RECURSIVE RunLen(_, _, _, _, _, _)
RunLen(a, b, i, j, ahi, bhi) ==
    IF i <= ahi /\ j <= bhi /\ a[i] = b[j]
    THEN 1 + RunLen(a, b, i + 1, j + 1, ahi, bhi)
    ELSE 0

\* the size of the longest common block inside a[alo..ahi], b[blo..bhi]
longest_size(a, b, alo, ahi, blo, bhi) ==
    SetMax({0} \cup { RunLen(a, b, i, j, ahi, bhi) : i \in alo..ahi, j \in blo..bhi })

\* the earliest start in a of a block of that size
first_in_a(a, b, alo, ahi, blo, bhi, size) ==
    SetMin({ i \in alo..ahi : \E j \in blo..bhi : RunLen(a, b, i, j, ahi, bhi) = size })

\* the earliest start in b of a block of that size that starts at a[i]
first_in_b(a, b, i, ahi, blo, bhi, size) ==
    SetMin({ j \in blo..bhi : RunLen(a, b, i, j, ahi, bhi) = size })

block_at(a, b, i, ahi, blo, bhi, size) ==
    << i, first_in_b(a, b, i, ahi, blo, bhi, size), size >>

block_of_size(a, b, alo, ahi, blo, bhi, size) ==
    IF size = 0 THEN << alo, blo, 0 >>
    ELSE block_at(a, b, first_in_a(a, b, alo, ahi, blo, bhi, size), ahi, blo, bhi, size)

\* SequenceMatcher.find_longest_match on a[alo..ahi], b[blo..bhi] (1-based,
\* inclusive): the longest block, of those the one starting earliest in a,
\* of those the one starting earliest in b.  << i, j, size >>.
find_longest_match(a, b, alo, ahi, blo, bhi) ==
    block_of_size(a, b, alo, ahi, blo, bhi, longest_size(a, b, alo, ahi, blo, bhi))

\* SequenceMatcher.get_matching_blocks, summed: the block found, then the
\* pieces to its left and to its right
RECURSIVE matching_total(_, _, _, _, _, _)
RECURSIVE matching_around(_, _, _, _, _, _, _)
matching_around(a, b, alo, ahi, blo, bhi, m) ==
    IF m[3] = 0 THEN 0
    ELSE m[3]
         + matching_total(a, b, alo, m[1] - 1, blo, m[2] - 1)
         + matching_total(a, b, m[1] + m[3], ahi, m[2] + m[3], bhi)

matching_total(a, b, alo, ahi, blo, bhi) ==
    IF alo > ahi \/ blo > bhi THEN 0
    ELSE matching_around(a, b, alo, ahi, blo, bhi,
                         find_longest_match(a, b, alo, ahi, blo, bhi))

\* difflib._calculate_ratio: 2.0 * matches / length, and 1.0 when length is 0
calculate_ratio(matches, length) ==
    IF length > 0 THEN << 2 * matches, length >> ELSE << 1, 1 >>

ratio(a, b) ==
    calculate_ratio(matching_total(a, b, 1, Len(a), 1, Len(b)), Len(a) + Len(b))

CountIn(s, c) == Cardinality({ k \in 1..Len(s) : s[k] = c })

\* SequenceMatcher.quick_ratio: elements of a that b still has available
quick_ratio(a, b) ==
    calculate_ratio(
        Cardinality({ k \in 1..Len(a) :
                        CountIn(SubSeq(a, 1, k - 1), a[k]) < CountIn(b, a[k]) }),
        Len(a) + Len(b))

\* SequenceMatcher.real_quick_ratio
real_quick_ratio(a, b) ==
    calculate_ratio(IF Len(a) < Len(b) THEN Len(a) ELSE Len(b), Len(a) + Len(b))

\* r >= cutoff, the cutoff in hundredths
RatioAtLeast(r, cutoff) == r[1] * 100 >= cutoff * r[2]
RatioLess(r, s) == r[1] * s[2] < s[1] * r[2]
RatioEq(r, s) == r[1] * s[2] = s[1] * r[2]

\* Variant: the order by score alone, under which the first seen of a tie wins
ScoreOnlyLess(r, x, s, y) == RatioLess(r, s)

\* Python's (score, x) < (score', x') on the tuples heapq.nlargest compares
TupleLess(r, x, s, y) == RatioLess(r, s) \/ (RatioEq(r, s) /\ StrLess(x, y))

\* The positions of possibilities that pass the three cutoff tests
CloseEnough(word, possibilities) ==
    { k \in 1..Len(possibilities) :
        /\ RatioAtLeast(real_quick_ratio(possibilities[k], word), FUZZY_CUTOFF)
        /\ RatioAtLeast(quick_ratio(possibilities[k], word), FUZZY_CUTOFF)
        /\ RatioAtLeast(ratio(possibilities[k], word), FUZZY_CUTOFF) }

\* the list of (score, x) tuples get_close_matches builds
scored(word, possibilities, kept) ==
    [k \in 1..Len(kept) |->
        << ratio(possibilities[kept[k]], word), possibilities[kept[k]] >>]

\* heapq.nlargest(1, result): max() over the tuples, the first of the largest
nlargest(result) ==
    IF Len(result) = 0 THEN << >>
    ELSE << result[CHOOSE k \in 1..Len(result) :
                       \A l \in 1..Len(result) :
                           /\ ~TupleLess(result[k][1], result[k][2],
                                         result[l][1], result[l][2])
                           /\ (~TupleLess(result[l][1], result[l][2],
                                          result[k][1], result[k][2]) => k <= l)][2] >>

\* difflib.get_close_matches(word, possibilities, n=1, cutoff=FUZZY_CUTOFF)
get_close_matches(word, possibilities) ==
    nlargest(scored(word, possibilities,
                    SortedSeq(CloseEnough(word, possibilities))))

----------------------------------------------------------------------------
(* Helpers on tables *)

RECURSIVE SumSeq(_)
SumSeq(s) == IF s = << >> THEN 0 ELSE s[1] + SumSeq(Tail(s))

\* the rows of table at the positions of S, in table order
RowsAt(table, S) ==
    LET ix == SortedSeq(S) IN [k \in 1..Len(ix) |-> table[ix[k]]]

SeqsUpTo(S, n) == UNION { [1..k -> S] : k \in 0..n }

----------------------------------------------------------------------------
(* load_and_preprocess_data: the tables as read, plus NormalizedName.      *)
(* Columns the logic never reads (Team, BookingStart, the bookings'        *)
(* FullName) are left out of the rows.                                     *)

WithNormalizedName(table) ==
    [k \in 1..Len(table) |->
        [StudentID |-> table[k].StudentID,
         FullName |-> table[k].FullName,
         IsSelectedOfficialTeam |-> table[k].IsSelectedOfficialTeam,
         NormalizedName |-> normalize_name(table[k].FullName)]]

WithNormalizedNameP(table) ==
    [k \in 1..Len(table) |->
        [StudentID |-> table[k].StudentID,
         FullName |-> table[k].FullName,
         Amount |-> table[k].Amount,
         PaymentDate |-> table[k].PaymentDate,
         NormalizedName |-> normalize_name(table[k].FullName)]]

----------------------------------------------------------------------------
(* reconcile_memberships *)

\* Variant: the difference without the clamp at 0
OutstandingUnclamped(paid) == Fee - paid

\* max(0, ANNUAL_FEE - PaidAmount)
OutstandingOf(paid) == IF Fee - paid > 0 THEN Fee - paid ELSE 0

\* Variant: the result columns of a payer kept from an earlier run
NewAccountKept(member) ==
    [StudentID |-> member.StudentID,
     FullName |-> member.FullName,
     NormalizedName |-> member.NormalizedName,
     PaidAmount |-> IF first_run = << >> THEN 0
                    ELSE SumSeq([k \in 1..Len(first_run[1].resolved_payments) |->
                                   IF first_run[1].resolved_payments[k].ResolvedStudentID
                                          = member.StudentID
                                   THEN first_run[1].resolved_payments[k].Amount ELSE 0]),
     PaidStatus |-> "Unpaid",
     Outstanding |-> Fee,
     PaymentDate |-> None]

\* an account row right after "Initialize result columns"
NewAccount(member) ==
    [StudentID |-> member.StudentID,
     FullName |-> member.FullName,
     NormalizedName |-> member.NormalizedName,
     PaidAmount |-> 0,
     PaidStatus |-> "Unpaid",
     Outstanding |-> Fee,
     PaymentDate |-> None]

\* Variant: the amount assigned instead of added
CreditOverwrite(players, m, payment) ==
    [players EXCEPT ![m] =
        [@ EXCEPT !.PaidAmount = payment.Amount,
                  !.Outstanding = OutstandingOf(payment.Amount),
                  !.PaymentDate = payment.PaymentDate]]

\* the three assignments made on a match, in either pass
\* Variant: the date is written only while the account has none, so the first
\* credited payment's date stays.
CreditFirstDate(players, m, payment) ==
    [players EXCEPT ![m] =
        [@ EXCEPT !.PaidAmount = @ + payment.Amount,
                  !.Outstanding = OutstandingOf(players[m].PaidAmount + payment.Amount),
                  !.PaymentDate = IF @ = None THEN payment.PaymentDate ELSE @]]

Credit(players, m, payment) ==
    [players EXCEPT ![m] =
        [@ EXCEPT !.PaidAmount = @ + payment.Amount,
                  !.Outstanding = OutstandingOf(players[m].PaidAmount + payment.Amount),
                  !.PaymentDate = payment.PaymentDate]]

\* payment.to_dict() plus the two resolution keys
Resolved(payment, id, type) ==
    [StudentID |-> payment.StudentID,
     FullName |-> payment.FullName,
     Amount |-> payment.Amount,
     PaymentDate |-> payment.PaymentDate,
     NormalizedName |-> payment.NormalizedName,
     ResolvedStudentID |-> id,
     MatchType |-> type]

\* lines 34-45
ReconcileBegin ==
    /\ pc = "start"
    /\ selected_players' =
           [m \in { k \in 1..Len(members_df) :
                      members_df[k].IsSelectedOfficialTeam = "Yes" }
               |-> NewAccount(members_df[m])]
    /\ matched_payment_indices' = {}
    /\ fuzzy_suggestions' = << >>
    /\ resolved_payments' = << >>
    /\ ledger' = << >>
    /\ pc' = "exact"
    /\ idx' = 1
    /\ UNCHANGED << members_df, payments_df, external_df, all_selected_names,
                    paid_not_selected, unmatched_payments, external_all,
                    external_issues, summary, run, first_run >>

\* the selected rows whose StudentID equals the payment's
ExactMatch(payment) ==
    IF payment.StudentID = NaNId THEN {}
    ELSE { m \in DOMAIN selected_players :
             selected_players[m].StudentID = payment.StudentID }

\* one iteration of the first pass, lines 48-65
ExactStep ==
    /\ pc = "exact"
    /\ idx <= Len(payments_df)
    /\ LET payment == payments_df[idx]
           match == ExactMatch(payment)
           matched_idx == SetMin(match)
       IN  IF match # {}
           THEN /\ selected_players' = Credit(selected_players, matched_idx, payment)
                /\ matched_payment_indices' = matched_payment_indices \cup {idx}
                /\ resolved_payments' =
                       Append(resolved_payments,
                              Resolved(payment,
                                       selected_players[matched_idx].StudentID,
                                       "StudentID"))
                /\ ledger' = Append(ledger, [payment |-> idx,
                                             account |-> matched_idx,
                                             pass |-> "exact"])
           ELSE /\ resolved_payments' =
                       Append(resolved_payments,
                              Resolved(payment, None, "Unmatched"))
                /\ UNCHANGED << selected_players, matched_payment_indices, ledger >>
    /\ idx' = idx + 1
    /\ UNCHANGED << members_df, payments_df, external_df, pc, fuzzy_suggestions,
                    all_selected_names, paid_not_selected, unmatched_payments,
                    external_all, external_issues, summary, run, first_run >>

\* line 68, reached when the first loop is exhausted
SnapshotNames ==
    /\ pc = "exact"
    /\ idx > Len(payments_df)
    /\ all_selected_names' =
           LET ix == SortedSeq(DOMAIN selected_players)
           IN  [k \in 1..Len(ix) |-> selected_players[ix[k]].NormalizedName]
    /\ pc' = "fuzzy"
    /\ idx' = 1
    /\ UNCHANGED << members_df, payments_df, external_df, selected_players,
                    matched_payment_indices, fuzzy_suggestions, resolved_payments,
                    paid_not_selected, unmatched_payments, ledger, external_all,
                    external_issues, summary, run, first_run >>

\* Variant: the second pass without the test of matched_payment_indices
FuzzyExaminedAgain(i) == normalize_name(payments_df[i].FullName) # << >>

\* the payment is examined by the second pass (lines 71-76 do not "continue")
FuzzyExamined(i) ==
    /\ i \notin matched_payment_indices
    /\ normalize_name(payments_df[i].FullName) # << >>

\* the selected rows the second pass matches payment i to (lines 79-89)
FuzzyMatch(i) ==
    IF ~FuzzyExamined(i) THEN {}
    ELSE LET matches == get_close_matches(normalize_name(payments_df[i].FullName),
                                          all_selected_names)
         IN  IF matches = << >> THEN {}
             ELSE { m \in DOMAIN selected_players :
                      selected_players[m].NormalizedName = matches[1] }

\* Variant: the resolved payments left as the first pass wrote them
MarkFuzzyNever(resolved, name, id) == resolved

\* lines 97-100: every resolved payment of that name still Unmatched
MarkFuzzy(resolved, name, id) ==
    [k \in 1..Len(resolved) |->
        IF resolved[k].NormalizedName = name /\ resolved[k].MatchType = "Unmatched"
        THEN [resolved[k] EXCEPT !.ResolvedStudentID = id, !.MatchType = "FuzzyName"]
        ELSE resolved[k]]

\* one iteration of the second pass, lines 70-107
FuzzyStep ==
    /\ pc = "fuzzy"
    /\ idx <= Len(payments_df)
    /\ LET payment == payments_df[idx]
           normalized_payment_name == normalize_name(payment.FullName)
           match == FuzzyMatch(idx)
           matched_idx == SetMin(match)
       IN  IF match # {}
           THEN /\ selected_players' = Credit(selected_players, matched_idx, payment)
                /\ matched_payment_indices' = matched_payment_indices \cup {idx}
                /\ resolved_payments' =
                       MarkFuzzy(resolved_payments, normalized_payment_name,
                                 selected_players[matched_idx].StudentID)
                /\ fuzzy_suggestions' =
                       IF normalized_payment_name
                              # selected_players[matched_idx].NormalizedName
                       THEN Append(fuzzy_suggestions,
                                   [EnteredName |-> payment.FullName,
                                    SuggestedName |->
                                        selected_players[matched_idx].FullName])
                       ELSE fuzzy_suggestions
                /\ ledger' = Append(ledger, [payment |-> idx,
                                             account |-> matched_idx,
                                             pass |-> "fuzzy"])
           ELSE UNCHANGED << selected_players, matched_payment_indices,
                             resolved_payments, fuzzy_suggestions, ledger >>
    /\ idx' = idx + 1
    /\ UNCHANGED << members_df, payments_df, external_df, pc, all_selected_names,
                    paid_not_selected, unmatched_payments, external_all,
                    external_issues, summary, run, first_run >>

\* Variant: ">=" for ">" in the second test
StatusOfZeroUnderpaid(paid) ==
    IF paid >= Fee THEN "Paid"
    ELSE IF paid >= 0 THEN "Underpaid"
    ELSE "Unpaid"

\* Variant: ">" for ">=" in the first test
StatusOfStrict(paid) ==
    IF paid > Fee THEN "Paid"
    ELSE IF paid > 0 THEN "Underpaid"
    ELSE "Unpaid"

\* lines 111-116
StatusOf(paid) ==
    IF paid >= Fee THEN "Paid"
    ELSE IF paid > 0 THEN "Underpaid"
    ELSE "Unpaid"

\* lines 127-135: payment_matched
PaymentMatched(payment) ==
    \/ /\ payment.StudentID # NaNId
       /\ payment.StudentID \in { members_df[k].StudentID : k \in 1..Len(members_df) }
    \/ /\ payment.FullName # NaNName
       /\ normalize_name(payment.FullName)
              \in { members_df[k].NormalizedName : k \in 1..Len(members_df) }

\* lines 122-138: the rows appended to paid_not_selected
PaidNotSelectedRows ==
    { i \in 1..Len(payments_df) :
        /\ i \notin matched_payment_indices
        /\ ~PaymentMatched(payments_df[i]) }

\* lines 109-146, reached when the second loop is exhausted
ReconcileFinish ==
    /\ pc = "fuzzy"
    /\ idx > Len(payments_df)
    /\ selected_players' =
           [m \in DOMAIN selected_players |->
               [selected_players[m] EXCEPT
                   !.PaidStatus = StatusOf(selected_players[m].PaidAmount)]]
    /\ paid_not_selected' = RowsAt(payments_df, PaidNotSelectedRows)
    /\ unmatched_payments' =
           SelectSeq(resolved_payments, LAMBDA rp : rp.MatchType = "Unmatched")
    /\ pc' = "reconciled"
    /\ UNCHANGED << members_df, payments_df, external_df, idx,
                    matched_payment_indices, fuzzy_suggestions, resolved_payments,
                    all_selected_names, ledger, external_all, external_issues,
                    summary, run, first_run >>

----------------------------------------------------------------------------
(* validate_external_bookings, lines 148-161 *)

\* Variant: the comparison without the 0.01 tolerance
AnnotatedNoTolerance(booking) ==
    LET Expected == booking.Hours * HOURLY_RATE * Pence
    IN  [BookingID |-> booking.BookingID,
         Hours |-> booking.Hours,
         AmountPaid |-> booking.AmountPaid,
         Expected |-> Expected,
         Underpaid |-> booking.AmountPaid < Expected,
         MissingPayment |-> booking.AmountPaid <= 0]

Annotated(booking) ==
    LET Expected == booking.Hours * HOURLY_RATE * Pence
    IN  [BookingID |-> booking.BookingID,
         Hours |-> booking.Hours,
         AmountPaid |-> booking.AmountPaid,
         Expected |-> Expected,
         Underpaid |-> booking.AmountPaid < Expected - 1,
         MissingPayment |-> booking.AmountPaid <= 0]

IsIssue(row) == row.Underpaid \/ row.MissingPayment

ValidateExternalBookings ==
    /\ pc = "reconciled"
    /\ external_all' = [k \in 1..Len(external_df) |-> Annotated(external_df[k])]
    /\ external_issues' = SelectSeq(external_all', IsIssue)
    /\ pc' = "validated"
    /\ UNCHANGED << members_df, payments_df, external_df, idx, selected_players,
                    matched_payment_indices, fuzzy_suggestions, resolved_payments,
                    all_selected_names, paid_not_selected, unmatched_payments,
                    ledger, summary, run, first_run >>

----------------------------------------------------------------------------
(* generate_summary, lines 163-208 *)

CountStatus(status) ==
    Cardinality({ m \in DOMAIN selected_players :
                    selected_players[m].PaidStatus = status })

\* the rate as printed by {:.1f}, in tenths of a percent
MismatchRate(mismatched, total) ==
    IF total > 0 THEN (2000 * mismatched + total) \div (2 * total) ELSE 0

\* the report, one field per value interpolated into the text
SummaryText(now) ==
    LET total_selected == Cardinality(DOMAIN selected_players)
        membership_expected == total_selected * Fee
        membership_collected ==
            SumSeq([k \in 1..Len(SortedSeq(DOMAIN selected_players)) |->
                       selected_players[SortedSeq(DOMAIN selected_players)[k]].PaidAmount])
        external_expected ==
            SumSeq([k \in 1..Len(external_all) |-> external_all[k].Expected])
        external_collected ==
            SumSeq([k \in 1..Len(external_all) |-> external_all[k].AmountPaid])
    IN  [Generated |-> now,
         total_selected |-> total_selected,
         paid_count |-> CountStatus("Paid"),
         underpaid_count |-> CountStatus("Underpaid"),
         unpaid_count |-> CountStatus("Unpaid"),
         mismatch_rate |->
             MismatchRate(CountStatus("Underpaid") + CountStatus("Unpaid"),
                          total_selected),
         membership_expected |-> membership_expected,
         membership_collected |-> membership_collected,
         membership_difference |-> membership_collected - membership_expected,
         total_bookings |-> Len(external_all),
         external_expected |-> external_expected,
         external_collected |-> external_collected,
         external_difference |-> external_collected - external_expected,
         external_issues_count |-> Len(external_issues),
         non_selected_payments_count |-> Len(paid_not_selected),
         unmatched_payments_count |-> Len(unmatched_payments)]

\* what datetime.now() can return, to the second
Clock == { "10:00:00", "10:00:01" }

GenerateSummary ==
    /\ pc = "validated"
    /\ \E now \in Clock : summary' = SummaryText(now)
    /\ pc' = "done"
    /\ UNCHANGED << members_df, payments_df, external_df, idx, selected_players,
                    matched_payment_indices, fuzzy_suggestions, resolved_payments,
                    all_selected_names, paid_not_selected, unmatched_payments,
                    ledger, external_all, external_issues, run, first_run >>

----------------------------------------------------------------------------
(* main() run a second time over the same three input files *)

\* everything save_outputs writes
Outputs ==
    [selected_players |-> selected_players,
     fuzzy_suggestions |-> fuzzy_suggestions,
     paid_not_selected |-> paid_not_selected,
     unmatched_payments |-> unmatched_payments,
     resolved_payments |-> resolved_payments,
     external_all |-> external_all,
     external_issues |-> external_issues,
     summary |-> summary]

Rerun ==
    /\ pc = "done"
    /\ run = 1
    /\ first_run' = << Outputs >>
    /\ run' = 2
    /\ pc' = "start"
    /\ idx' = 1
    /\ selected_players' = << >>
    /\ matched_payment_indices' = {}
    /\ fuzzy_suggestions' = << >>
    /\ resolved_payments' = << >>
    /\ all_selected_names' = << >>
    /\ paid_not_selected' = << >>
    /\ unmatched_payments' = << >>
    /\ ledger' = << >>
    /\ external_all' = << >>
    /\ external_issues' = << >>
    /\ summary' = << >>
    /\ UNCHANGED << members_df, payments_df, external_df >>

----------------------------------------------------------------------------
(* Inputs *)

\* identifiers of the payer table, unique, by row
Ids == << "S1", "S2", "S3", "S4" >>

\* raw FullName values; normalized: "ab cda", "ab cdb"
MemberNames ==
    { << "A", "b", " ", "c", "d", "a" >>,
      << "a", "b", " ", "c", "d", "b" >> }

\* raw FullName values; normalized: "ab cd", "ab cdb", and a missing name
PaymentNames ==
    { << "a", "b", " ", " ", "c", "d", " " >>,
      << " ", "A", "B", " ", "C", "D", "B" >>,
      NaNName }

PaymentIds == { NaNId, "S1", "S2" }

\* The payment rows: every identifier with every name.  To keep the tables
\* few, the amount goes with the name and the date with the pair, so that no
\* two rows of the pool carry the same date.
AmountOf(name) ==
    CASE name = << "a", "b", " ", " ", "c", "d", " " >> -> 70 * Pence
      [] name = NaNName -> 0 - 70 * Pence
      [] OTHER -> 50 * Pence

\* The dates of the PaymentDate column, in chronological order.
Dates ==
    << "2025-01-01", "2025-01-03", "2025-01-05",
       "2025-02-02", "2025-02-04", "2025-02-06",
       "2025-03-01", "2025-03-03", "2025-03-05" >>

DateRank(d) == CHOOSE k \in DOMAIN Dates : Dates[k] = d

DateOf(id, name) ==
    LET month == CASE id = "S2" -> 0
                   [] id = "S1" -> 6
                   [] OTHER -> 3
        day == CASE name = << "a", "b", " ", " ", "c", "d", " " >> -> 1
                 [] name = NaNName -> 3
                 [] OTHER -> 2
    IN  Dates[month + day]

MemberTables ==
    { [k \in 1..Len(t) |->
          [StudentID |-> Ids[k],
           FullName |-> t[k][1],
           IsSelectedOfficialTeam |-> t[k][2]]] :
      t \in SeqsUpTo(MemberNames \X { "Yes", "No" }, MaxMembers) }

PaymentRows ==
    { [StudentID |-> id, FullName |-> name, Amount |-> AmountOf(name),
       PaymentDate |-> DateOf(id, name)] : id \in PaymentIds, name \in PaymentNames }

PaymentTables == SeqsUpTo(PaymentRows, MaxPayments)

BookingTables ==
    { [k \in 1..Len(t) |->
          [BookingID |-> k, Hours |-> t[k][1], AmountPaid |-> t[k][2]]] :
      t \in SeqsUpTo({ 0, 3 } \X { 0, 1000, 1498, 1499, 1500 }, MaxBookings) }

InitWith(MT, PT, BT) ==
    /\ members_df \in { WithNormalizedName(t) : t \in MT }
    /\ payments_df \in { WithNormalizedNameP(t) : t \in PT }
    /\ external_df \in BT
    /\ pc = "start"
    /\ idx = 1
    /\ selected_players = << >>
    /\ matched_payment_indices = {}
    /\ fuzzy_suggestions = << >>
    /\ resolved_payments = << >>
    /\ all_selected_names = << >>
    /\ paid_not_selected = << >>
    /\ unmatched_payments = << >>
    /\ ledger = << >>
    /\ external_all = << >>
    /\ external_issues = << >>
    /\ summary = << >>
    /\ run = 1
    /\ first_run = << >>

Init == InitWith(MemberTables, PaymentTables, { << >> })

\* reconcile_memberships
Next ==
    \/ ReconcileBegin
    \/ ExactStep
    \/ SnapshotNames
    \/ FuzzyStep
    \/ ReconcileFinish

Spec == Init /\ [][Next]_vars

\* main(): reconcile_memberships, validate_external_bookings, generate_summary
NextMain ==
    \/ Next
    \/ ValidateExternalBookings
    \/ GenerateSummary

\* one payer table and one payment table: an identifier match of 50 pounds
\* and a name match of 70 pounds for the same selected payer
ScenarioMembers ==
    << [StudentID |-> "S1", FullName |-> << "A", "b", " ", "c", "d", "a" >>,
        IsSelectedOfficialTeam |-> "Yes"],
       [StudentID |-> "S2", FullName |-> << "a", "b", " ", "c", "d", "b" >>,
        IsSelectedOfficialTeam |-> "No"] >>

ScenarioPayments ==
    << [StudentID |-> "S1", FullName |-> << " ", "A", "B", " ", "C", "D", "B" >>,
        Amount |-> 50 * Pence, PaymentDate |-> "2025-03-03"],
       [StudentID |-> NaNId, FullName |-> << "a", "b", " ", " ", "c", "d", " " >>,
        Amount |-> 70 * Pence, PaymentDate |-> "2025-02-02"] >>

InitMain == InitWith({ ScenarioMembers }, { ScenarioPayments }, BookingTables)

SpecMain == InitMain /\ [][NextMain]_vars

\* main() twice over the same inputs
NextTwice ==
    \/ NextMain
    \/ Rerun

TwicePaymentTables ==
    SeqsUpTo({ r \in PaymentRows : r.StudentID # "S2" /\ r.FullName # NaNName },
             MaxPayments)

TwiceBookingTables ==
    { t \in BookingTables :
        \A k \in 1..Len(t) : t[k].Hours = 3 /\ t[k].AmountPaid \in { 1000, 1500 } }

InitTwice ==
    InitWith({ ScenarioMembers, << ScenarioMembers[2], ScenarioMembers[1] >> },
             TwicePaymentTables, TwiceBookingTables)

SpecTwice == InitTwice /\ [][NextTwice]_vars

----------------------------------------------------------------------------
(* Properties *)

\* the normalized names the input tables can hold
NormalizedNames == { normalize_name(n) : n \in MemberNames \cup PaymentNames }

\* the ratio of every pair of them, tabulated once
Similarity == [a \in NormalizedNames, b \in NormalizedNames |-> ratio(a, b)]

\* reconcile_memberships has returned
Reconciled == pc \in { "reconciled", "validated", "done" }

\* the account table exists
InReconcile == pc # "start"

\* the amounts of the payments whose resolved payment names identifier id
ResolvedAmounts(id) ==
    [k \in 1..Len(resolved_payments) |->
        IF resolved_payments[k].ResolvedStudentID = id
        THEN payments_df[k].Amount ELSE 0]

\* the payments credited to account m, by the history of "PaidAmount +="
CreditedTo(m) == { ledger[k].payment : k \in { l \in 1..Len(ledger) : ledger[l].account = m } }

Credited == { ledger[k].payment : k \in 1..Len(ledger) }

\* C2: after reconcile_memberships, every account's PaidAmount is the sum of
\* the amounts of the payments whose resolved payment carries the account's
\* identifier (payer identifiers are unique in every table of the model).
C2_PaidAmountIsSumOfResolved ==
    Reconciled =>
        \A m \in DOMAIN selected_players :
            selected_players[m].PaidAmount
                = SumSeq(ResolvedAmounts(selected_players[m].StudentID))

\* C2 witness: an account that received an identifier match and a name match,
\* two payments in all, and the run is over
C2_Witness ==
    /\ Reconciled
    /\ \E m \in DOMAIN selected_players :
           /\ Cardinality(CreditedTo(m)) >= 2
           /\ \E k, l \in 1..Len(ledger) :
                  /\ ledger[k].account = m /\ ledger[k].pass = "exact"
                  /\ ledger[l].account = m /\ ledger[l].pass = "fuzzy"

\* C3 as claimed: Paid iff paid >= fee, Underpaid iff 0 < paid < fee, Unpaid
\* iff paid = 0
C3_StatusThresholdsAsClaimed ==
    Reconciled =>
        \A m \in DOMAIN selected_players :
            LET paid == selected_players[m].PaidAmount
                status == selected_players[m].PaidStatus
            IN  /\ (status = "Paid") <=> (paid >= ANNUAL_FEE * Pence)
                /\ (status = "Underpaid") <=> (0 < paid /\ paid < ANNUAL_FEE * Pence)
                /\ (status = "Unpaid") <=> (paid = 0)

\* C3 amended: Paid iff paid >= fee, Underpaid iff 0 < paid < fee, Unpaid iff
\* paid <= 0 (a negative total, from refund rows, is Unpaid too)
C3_StatusThresholds ==
    Reconciled =>
        \A m \in DOMAIN selected_players :
            LET paid == selected_players[m].PaidAmount
                status == selected_players[m].PaidStatus
            IN  /\ (status = "Paid") <=> (paid >= ANNUAL_FEE * Pence)
                /\ (status = "Underpaid") <=> (0 < paid /\ paid < ANNUAL_FEE * Pence)
                /\ (status = "Unpaid") <=> (paid <= 0)

\* C3 witness: the run is over with an account whose total is negative, and
\* the code has classified it Unpaid
C3_Witness ==
    /\ Reconciled
    /\ \E m \in DOMAIN selected_players :
           /\ selected_players[m].PaidAmount < 0
           /\ selected_players[m].PaidStatus = "Unpaid"

\* C4: in every state of reconcile_memberships from the initialisation of the
\* result columns on, every account has Outstanding = max(0, fee - PaidAmount),
\* hence Outstanding >= 0.
C4_OutstandingIsClampedDifference ==
    InReconcile =>
        \A m \in DOMAIN selected_players :
            LET paid == selected_players[m].PaidAmount
                due == ANNUAL_FEE * Pence - paid
            IN  /\ selected_players[m].Outstanding = (IF due > 0 THEN due ELSE 0)
                /\ selected_players[m].Outstanding >= 0

\* C4 witness: in the middle of the second pass an account is overpaid and its
\* Outstanding is clamped to 0
C4_Witness ==
    /\ pc = "fuzzy"
    /\ idx <= Len(payments_df)
    /\ \E m \in DOMAIN selected_players :
           /\ selected_players[m].PaidAmount > ANNUAL_FEE * Pence
           /\ selected_players[m].Outstanding = 0

\* the sum of the amounts of the payments at the rows of S
AmountsOf(S) ==
    LET ix == SortedSeq(S) IN SumSeq([k \in 1..Len(ix) |-> payments_df[ix[k]].Amount])

\* the payment's identifier is that of some payer of the full table, or its
\* normalized name is that of some payer of the full table
KnownPayer(i) ==
    \E k \in 1..Len(members_df) :
        \/ /\ payments_df[i].StudentID # NaNId
           /\ payments_df[i].StudentID = members_df[k].StudentID
        \/ normalize_name(payments_df[i].FullName) = members_df[k].NormalizedName

\* C1: after reconcile_memberships, paid_not_selected holds exactly the
\* payments that were credited to no account and whose identifier or
\* normalized name is that of some payer of the full table.
C1_PaidNotSelectedIsKnownPayer ==
    Reconciled =>
        paid_not_selected
            = RowsAt(payments_df,
                     { i \in 1..Len(payments_df) : i \notin Credited /\ KnownPayer(i) })

\* the payment's identifier is that of no selected payer
NoSelectedId(i) ==
    \A m \in DOMAIN selected_players :
        \/ payments_df[i].StudentID = NaNId
        \/ selected_players[m].StudentID # payments_df[i].StudentID

\* C5: a payment is credited at most once, to one account; every account's
\* total is the sum of the payments credited to it; and a payment is credited
\* by the second pass only if no selected payer has its identifier, its
\* normalized name is not empty, and the ratio of that name to the credited
\* account's normalized name is at least the cutoff.
C5_CreditedAtMostOnce ==
    InReconcile =>
        /\ \A k, l \in 1..Len(ledger) :
               ledger[k].payment = ledger[l].payment => k = l
        /\ \A m \in DOMAIN selected_players :
               selected_players[m].PaidAmount = AmountsOf(CreditedTo(m))
        /\ \A k \in 1..Len(ledger) :
               ledger[k].pass = "fuzzy" =>
                   LET i == ledger[k].payment
                       name == normalize_name(payments_df[i].FullName)
                   IN  /\ NoSelectedId(i)
                       /\ name # << >>
                       /\ RatioAtLeast(
                              Similarity[selected_players[ledger[k].account].NormalizedName,
                                    name],
                              FUZZY_CUTOFF)

\* C5 witness: one payment credited by the first pass and another by the
\* second, whose name differs from the account's
C5_Witness ==
    \E k, l \in 1..Len(ledger) :
        /\ ledger[k].pass = "exact"
        /\ ledger[l].pass = "fuzzy"
        /\ normalize_name(payments_df[ledger[l].payment].FullName)
               # selected_players[ledger[l].account].NormalizedName

\* the status the threshold rule gives a total
Classified(paid) ==
    IF paid >= ANNUAL_FEE * Pence THEN "Paid"
    ELSE IF paid > 0 THEN "Underpaid" ELSE "Unpaid"

\* account m received exactly payment i, of 50 pounds, by its identifier, and
\* payment j, of 70 pounds, whose identifier is that of no selected payer and
\* whose normalized name differs from the account's with a ratio >= cutoff
ScenarioA(m, i, j) ==
    /\ i # j
    /\ CreditedTo(m) = { i, j }
    /\ payments_df[i].StudentID = selected_players[m].StudentID
    /\ payments_df[i].Amount = 50 * Pence
    /\ NoSelectedId(j)
    /\ payments_df[j].Amount = 70 * Pence
    /\ normalize_name(payments_df[j].FullName) # selected_players[m].NormalizedName
    /\ RatioAtLeast(Similarity[selected_players[m].NormalizedName,
                          normalize_name(payments_df[j].FullName)], FUZZY_CUTOFF)
    /\ resolved_payments[j].ResolvedStudentID = selected_players[m].StudentID

\* C8: after reconcile_memberships every account's status is the class of the
\* total of all payments credited to it; and an account that received 50
\* pounds by identifier and 70 pounds by a differing name has PaidAmount 120
\* pounds, status Paid, Outstanding 0, with exactly one suggestion pairing the
\* entered name with the payer's FullName.
C8_AccumulateThenClassify ==
    Reconciled =>
        /\ \A m \in DOMAIN selected_players :
               selected_players[m].PaidStatus = Classified(AmountsOf(CreditedTo(m)))
        /\ \A m \in DOMAIN selected_players : \A i, j \in 1..Len(payments_df) :
               ScenarioA(m, i, j) =>
                   /\ selected_players[m].PaidAmount = 120 * Pence
                   /\ selected_players[m].PaidStatus = "Paid"
                   /\ selected_players[m].Outstanding = 0
                   /\ Cardinality({ k \in 1..Len(fuzzy_suggestions) :
                                      fuzzy_suggestions[k]
                                          = [EnteredName |-> payments_df[j].FullName,
                                             SuggestedName |->
                                                 selected_players[m].FullName] }) = 1

\* C8 witness: the run is over and some account is in the scenario
C8_Witness ==
    /\ Reconciled
    /\ \E m \in DOMAIN selected_players : \E i, j \in 1..Len(payments_df) :
           ScenarioA(m, i, j)

\* the ratio of every selected payer's normalized name to the payment's is
\* below the cutoff
NoCloseName(i) ==
    \A m \in DOMAIN selected_players :
        ~RatioAtLeast(Similarity[selected_players[m].NormalizedName,
                            normalize_name(payments_df[i].FullName)], FUZZY_CUTOFF)

\* C9: after reconcile_memberships there is one resolved payment per payment,
\* in order; its MatchType is Unmatched exactly when the payment was credited
\* to no account; unmatched_payments is the list of the Unmatched ones; and a
\* payment with an identifier of no selected payer and a name close to none
\* is Unmatched and in unmatched_payments.
C9_UnmatchedIsUncredited ==
    Reconciled =>
        /\ Len(resolved_payments) = Len(payments_df)
        /\ \A k \in 1..Len(resolved_payments) :
               /\ resolved_payments[k].StudentID = payments_df[k].StudentID
               /\ resolved_payments[k].FullName = payments_df[k].FullName
               /\ resolved_payments[k].Amount = payments_df[k].Amount
               /\ resolved_payments[k].PaymentDate = payments_df[k].PaymentDate
               /\ resolved_payments[k].MatchType \in { "StudentID", "FuzzyName", "Unmatched" }
               /\ (resolved_payments[k].MatchType = "Unmatched") <=> (k \notin Credited)
               /\ (NoSelectedId(k) /\ NoCloseName(k)) =>
                      /\ resolved_payments[k].MatchType = "Unmatched"
                      /\ \E u \in 1..Len(unmatched_payments) :
                             unmatched_payments[u] = resolved_payments[k]
        /\ unmatched_payments
               = RowsAt(resolved_payments,
                        { k \in 1..Len(resolved_payments) :
                            resolved_payments[k].MatchType = "Unmatched" })

\* C9 witness: the run is over; one payment, with an identifier and a name,
\* matched no selected payer although there is one, and is in
\* unmatched_payments; another payment was credited by the second pass
C9_Witness ==
    /\ Reconciled
    /\ DOMAIN selected_players # {}
    /\ \E k \in 1..Len(payments_df) :
           /\ payments_df[k].StudentID # NaNId
           /\ payments_df[k].FullName # NaNName
           /\ NoSelectedId(k) /\ NoCloseName(k)
           /\ resolved_payments[k] \in { unmatched_payments[u] :
                                           u \in 1..Len(unmatched_payments) }
    /\ \E l \in 1..Len(ledger) : ledger[l].pass = "fuzzy"

\* the normalized names of all selected payers of the payer table, in order
SelectedNames ==
    LET ix == SortedSeq({ k \in 1..Len(members_df) :
                            members_df[k].IsSelectedOfficialTeam = "Yes" })
    IN  [k \in 1..Len(ix) |-> members_df[ix[k]].NormalizedName]

\* the position of account m in the snapshot
SnapshotPos(m) == Cardinality({ x \in DOMAIN selected_players : x <= m })

\* snapshot position p has the highest ratio to word among those >= cutoff
Best(p, word) ==
    /\ RatioAtLeast(Similarity[all_selected_names[p], word], FUZZY_CUTOFF)
    /\ \A q \in 1..Len(all_selected_names) :
           ~RatioLess(Similarity[all_selected_names[p], word],
                      Similarity[all_selected_names[q], word])

\* from the second pass on, the snapshot is the list of all selected payers'
\* normalized names, whatever has been matched
SnapshotIsStatic ==
    pc \in { "fuzzy", "reconciled", "validated", "done" } =>
        all_selected_names = SelectedNames

\* C10 as claimed: the account credited by the second pass has the highest
\* ratio among the snapshot names >= cutoff, the snapshot never shrinks, and
\* of the snapshot positions that tie on the highest ratio the earliest wins.
C10_EarliestOfTiedWins ==
    /\ SnapshotIsStatic
    /\ \A k \in 1..Len(ledger) :
           ledger[k].pass = "fuzzy" =>
               LET word == normalize_name(payments_df[ledger[k].payment].FullName)
                   p == SnapshotPos(ledger[k].account)
               IN  /\ Best(p, word)
                   /\ \A q \in 1..Len(all_selected_names) : Best(q, word) => p <= q

\* C10 amended: the account credited by the second pass has the highest ratio
\* among the snapshot names >= cutoff, the snapshot never shrinks, and of the
\* distinct names that tie on the highest ratio the greatest in string order
\* wins; of the payers bearing that name the earliest in the table wins.
C10_GreatestNameOfTiedWins ==
    /\ SnapshotIsStatic
    /\ \A k \in 1..Len(ledger) :
           ledger[k].pass = "fuzzy" =>
               LET word == normalize_name(payments_df[ledger[k].payment].FullName)
                   p == SnapshotPos(ledger[k].account)
               IN  /\ Best(p, word)
                   /\ \A q \in 1..Len(all_selected_names) :
                          Best(q, word) =>
                              /\ ~StrLess(all_selected_names[p], all_selected_names[q])
                              /\ all_selected_names[q] = all_selected_names[p] => p <= q

\* C10 witness: a payment credited by the second pass to an account already
\* credited by the first, although an earlier snapshot position, with another
\* name, ties on the highest ratio
C10_Witness ==
    \E k, l \in 1..Len(ledger) :
        /\ ledger[k].pass = "exact"
        /\ ledger[l].pass = "fuzzy"
        /\ ledger[l].account = ledger[k].account
        /\ \E q \in 1..Len(all_selected_names) :
               /\ q < SnapshotPos(ledger[l].account)
               /\ Best(q, normalize_name(payments_df[ledger[l].payment].FullName))
               /\ all_selected_names[q]
                      # all_selected_names[SnapshotPos(ledger[l].account)]

\* validate_external_bookings has returned
Validated == pc \in { "validated", "done" }

\* C6: validate_external_bookings keeps every booking, in order, with
\* Expected = Hours x rate, Underpaid iff AmountPaid < Expected - 0.01 and
\* MissingPayment iff AmountPaid <= 0; the issues are exactly the bookings
\* with Underpaid or MissingPayment; 3 hours paid 10 pounds is Underpaid, not
\* MissingPayment, and an issue.
C6_BookingFlags ==
    Validated =>
        /\ Len(external_all) = Len(external_df)
        /\ \A k \in 1..Len(external_df) :
               /\ external_all[k].BookingID = external_df[k].BookingID
               /\ external_all[k].Hours = external_df[k].Hours
               /\ external_all[k].AmountPaid = external_df[k].AmountPaid
               /\ external_all[k].Expected = external_df[k].Hours * HOURLY_RATE * 100
               /\ external_all[k].Underpaid
                      <=> (external_df[k].AmountPaid
                               < external_df[k].Hours * HOURLY_RATE * 100 - 1)
               /\ external_all[k].MissingPayment <=> (external_df[k].AmountPaid <= 0)
               /\ (external_df[k].Hours = 3 /\ external_df[k].AmountPaid = 1000) =>
                      /\ external_all[k].Underpaid
                      /\ ~external_all[k].MissingPayment
                      /\ \E u \in 1..Len(external_issues) :
                             external_issues[u].BookingID = external_df[k].BookingID
        /\ external_issues
               = RowsAt(external_all,
                        { k \in 1..Len(external_all) :
                            external_all[k].Underpaid \/ external_all[k].MissingPayment })

\* C6 witness: validated tables with a booking of 3 hours paid 10 pounds among
\* the issues and a booking paid within the tolerance that is no issue
C6_Witness ==
    /\ Validated
    /\ \E k \in 1..Len(external_df) :
           /\ external_df[k].Hours = 3 /\ external_df[k].AmountPaid = 1000
           /\ \E u \in 1..Len(external_issues) :
                  external_issues[u].BookingID = external_df[k].BookingID
    /\ \E k \in 1..Len(external_df) :
           /\ external_df[k].Hours = 3 /\ external_df[k].AmountPaid = 1499
           /\ \A u \in 1..Len(external_issues) :
                  external_issues[u].BookingID # external_df[k].BookingID

\* the second run of main() has finished
SecondRunDone == pc = "done" /\ run = 2

\* the outputs with the line "Generated: ..." of the report blanked
WithoutTimestamp(out) == [out EXCEPT !.summary.Generated = "-"]

FuzzyTo(m) ==
    { k \in DOMAIN resolved_payments :
         /\ resolved_payments[k].ResolvedStudentID = selected_players[m].StudentID
         /\ resolved_payments[k].MatchType = "FuzzyName" }

ExactTo(m) ==
    { k \in DOMAIN resolved_payments :
         /\ resolved_payments[k].ResolvedStudentID = selected_players[m].StudentID
         /\ resolved_payments[k].MatchType = "StudentID" }

C11_LastWriterWins ==
    Reconciled =>
        \A m \in DOMAIN selected_players :
            selected_players[m].PaymentDate =
                IF FuzzyTo(m) # {}
                THEN payments_df[SetMax(FuzzyTo(m))].PaymentDate
                ELSE IF ExactTo(m) # {}
                     THEN payments_df[SetMax(ExactTo(m))].PaymentDate
                     ELSE None

\* An account credited by a fuzzy-matched payment that stands earlier in the
\* input and is dated earlier than an exact-matched payment to the same
\* account: the account carries the fuzzy payment's date.
C11_Witness ==
    /\ Reconciled
    /\ \E m \in DOMAIN selected_players :
          \E j \in FuzzyTo(m), i \in ExactTo(m) :
              /\ j < i
              /\ DateRank(payments_df[j].PaymentDate) < DateRank(payments_df[i].PaymentDate)
              /\ selected_players[m].PaymentDate = payments_df[j].PaymentDate
              /\ selected_players[m].PaymentDate # payments_df[i].PaymentDate

====
